---- MODULE Spec2Model ----
(***************************************************************************)
(* Model of the editor stand-in (src/fakeeditor/src/main.zig): one         *)
(* sequential process, its two buffered writers, the clock it reads, and   *)
(* its environment (the launching process, the harness that creates the    *)
(* signal file).                                                           *)
(*                                                                         *)
(* Time.  `clock' is the number of milliseconds since start_time was       *)
(* captured.  The checks of one loop iteration take no time; the only      *)
(* thing that advances the clock inside the loop is the sleep, which       *)
(* lasts exactly POLLING_INTERVAL_MS.  The work between the capture of     *)
(* start_time and the first iteration takes a startup delay.  Events of    *)
(* the environment fall anywhere between two steps of the process; their   *)
(* age is counted in completed sleeps: an event that is n sleeps old       *)
(* happened at most n poll intervals ago, and more than n-1.               *)
(*                                                                         *)
(* The module also models three classes of the extension:                  *)
(* JJDecorationProvider (its fields, the calls it makes to its register    *)
(* callback and the events it fires), GraphTreeDataProvider (its items     *)
(* and the calls of refresh suspended at showAll) and JJGraphWebview (its  *)
(* panel, the wait for webviewReady and the calls of refresh suspended at  *)
(* their awaits).  The programs share no state; each specification runs    *)
(* one of them and leaves the others as constructed.                       *)
(***************************************************************************)
EXTENDS Integers, Sequences, FiniteSets, TLC

\* ---------------------------------------------------------------- constants
POLLING_INTERVAL_MS == 50
TOTAL_TIMEOUT_MS == 5000

SENTINEL == "FAKEEDITOR_OUTPUT_END"
SIGNAL_FILE == "0"
INIT_PID == 1

\* ------------------------------------------------------------------- bounds
MaxTransient == 1           \* transient probe / access errors injected per run
MaxStartupDelayMs == 20     \* time between start_time and the first tick
MaxRefreshCalls == 3        \* calls of onRefresh in one run of the provider
MaxTreeCalls == 3           \* calls of GraphTreeDataProvider.refresh in one run
MaxWebCalls == 3            \* calls of JJGraphWebview.refresh in one run

\* ------------------------------------------------------------------- inputs
\* An argument is the sequence of lines its text consists of: printing it
\* with "{s}\n" ends its last line, an embedded line break ends the others.
ArgVectors ==
    { << <<"fakeeditor">>, <<"--edit">>, <<"msg.txt">> >>,
      << <<"fakeeditor">>, <<"a", SENTINEL>> >> }
OwnPids == {4242}
LauncherPids == {977}
Cwds == {"/repo"}
FileNames == {SIGNAL_FILE, "1"}
HarnessFiles == { {SIGNAL_FILE} }       \* the names the harness of a run uses
StartupDelays == {0, MaxStartupDelayMs}

VARIABLES
    os,             \* builtin.os.tag: "posix" or "windows"
    pid,            \* own process id
    cwd,            \* current working directory
    args,           \* argv
    envSet,         \* JJ_FAKEEDITOR_SIGNAL_DIR is set
    launcher,       \* process id of the launching process
    creatable,      \* names of the files the harness may create in this run
    pc,             \* position of the process in main
    argi,           \* number of arguments already printed
    outBuf,         \* stdout_writer: lines buffered, not yet written
    outOut,         \* lines written to standard output
    errBuf,         \* stderr_writer: lines buffered
    errOut,         \* lines written to the diagnostic stream
    ioFailed,       \* streams on which a write of the process has failed
    clock,          \* ms since start_time
    ticks,          \* iterations of the wait loop begun
    monitoring,     \* parent_monitoring_active
    ppid,           \* ppid / win_ppid
    handles,        \* Windows handles currently open
    exitCode,       \* process exit status, -1 while running
    exitVia,        \* the place in main where the process ended
    parent,         \* "alive" or "dead"
    parentAge,      \* sleeps completed since the parent died
    sigdir,         \* names of the files in the signal directory
    fileAge,        \* sleeps completed since "0" was last created
    transients,     \* transient errors injected so far
    lastAccess,     \* result of the latest signal-file check
    lastProbe,      \* result of the latest liveness check
    hist            \* facts about the past of the run, used by the properties

\* JJDecorationProvider (decorationProvider.ts) and its surroundings
VARIABLES
    platform,       \* process.platform: "linux" or "win32"
    decorations,    \* this.decorations: key -> FileDecoration
    trackedFiles,   \* this.trackedFiles: a set of paths, or null
    hasData,        \* this.hasData
    registerCalls,  \* calls made to this.register
    fireCount,      \* events fired on onDidChangeFileDecorations
    refreshCalls,   \* calls of onRefresh made so far
    lastOp          \* the latest call of a method and what came of it

decoVars == << platform, decorations, trackedFiles, hasData, registerCalls, fireCount,
               refreshCalls, lastOp >>

\* GraphTreeDataProvider (graphTreeView.ts) and the calls of refresh under way
VARIABLES
    items,              \* this.items
    itemChangeIds,      \* this.itemChangeIds
    workingCopyChange,  \* this.workingCopyChange: the change in a set, or none
    selectedRepository, \* this.selectedRepository: its repositoryRoot
    treeCalls,          \* the calls of refresh: where each is, and its prev
    treeFired,          \* events fired on onDidChangeTreeData
    revealed            \* the item last revealed in the tree view, if any

treeVars == << items, itemChangeIds, workingCopyChange, selectedRepository, treeCalls,
               treeFired, revealed >>

\* JJGraphWebview (graphWebview.ts), the webview and the calls of refresh
VARIABLES
    panel,          \* this.panel is set
    repository,     \* this.repository: its repositoryRoot
    selectedNodes,  \* this.selectedNodes
    resolving,      \* where resolveWebviewView is
    webviewReady,   \* the webview has sent webviewReady
    webCalls,       \* the calls of refresh: where each is
    posted          \* the messages posted to the webview, in order

webVars == << panel, repository, selectedNodes, resolving, webviewReady, webCalls, posted >>

\* the state of the extension, which the stand-in never touches
extensionVars == << decoVars, treeVars, webVars >>

vars == << os, pid, cwd, args, envSet, launcher, creatable, pc, argi, outBuf, outOut, errBuf, errOut,
           ioFailed, clock, ticks, monitoring, ppid, handles, exitCode, exitVia,
           parent, parentAge, sigdir, fileAge, transients, lastAccess, lastProbe,
           hist, extensionVars >>

procVars == << pc, argi, outBuf, outOut, errBuf, errOut, ioFailed, clock, ticks,
               monitoring, ppid, handles, exitCode, exitVia, lastAccess, lastProbe >>
inputVars == << os, pid, cwd, args, envSet, launcher, creatable >>
envVars == << parent, parentAge, sigdir, fileAge, hist >>

\* ------------------------------------------------------------------ helpers
\* ages are counted 0, 1, "2 or more"
Older(a) == IF a < 2 THEN a + 1 ELSE a

RECURSIVE Flatten(_)
Flatten(ss) == IF ss = <<>> THEN <<>> ELSE Head(ss) \o Flatten(Tail(ss))

\* "{}\n" applied to the pid: its decimal text
PidLine(p) == ToString(p)

\* stderr messages
MsgEnv == "Error getting environment variable 'JJ_FAKEEDITOR_SIGNAL_DIR'"
MsgJoin == "Critical Error: Failed to construct signal file path"
MsgWinWarn == "Warning: Failed to get parent PID on Windows. Parent process monitoring will be disabled."
MsgInit == "Info: Parent process is init/launchd (PID 1), original parent likely exited. Exiting fakeeditor."
MsgTimeout == "Error: Timeout (5000ms) reached in fakeeditor. Exiting."
MsgGoneWin == "Parent process no longer exists (Windows). Exiting."
MsgGonePosix == "Parent process no longer exists (POSIX). Exiting."
MsgAccess == "Error checking for signal file '0' in fakeeditor"
MsgWait == "WaitForSingleObject failed"
MsgSnapshot == "CreateToolhelp32Snapshot failed"
MsgFirst == "Process32First failed"
MsgNext == "Process32Next failed"
MsgIdle == "Error: Retrieved parent PID is 0. This is unexpected."

\* ------------------------------------------- decoration provider: values
\* Paths are absolute and in the platform's own form, for which
\* Uri.file(path).fsPath is the path itself.
Platforms == {"linux", "win32"}
Paths == {"/r/a", "/r/B"}
Revs == {"@", "k"}

\* String.prototype.toLowerCase on the paths of the model
toLowerCase(str) == IF str = "/r/B" THEN "/r/b" ELSE str

convertSetToLowercase(originalSet) == { toLowerCase(item) : item \in originalSet }

colorOfType(type) ==
    CASE type = "A" -> "jjDecoration.addedResourceForeground"
      [] type = "M" -> "jjDecoration.modifiedResourceForeground"
      [] type = "D" -> "jjDecoration.deletedResourceForeground"
      [] type = "R" -> "jjDecoration.modifiedResourceForeground"

ConflictColor == "gitDecoration.conflictingResourceForeground"
IgnoredColor == "jjDecoration.ignoredResourceForeground"

\* The serialised pair JSON.stringify({ fsPath, rev }) is the pair itself.
getKey(fsPath, rev) ==
    << IF platform = "win32" THEN toLowerCase(fsPath) ELSE fsPath, rev >>

parseKey(key) == [fsPath |-> key[1], rev |-> key[2]]

\* A query is the JSON text of its parameters, the empty string, or the
\* text of some other value.
RevParams(rev) == [kind |-> "rev", rev |-> rev]
DiffOriginalRevParams(rev) == [kind |-> "diffOriginalRev", rev |-> rev]
EmptyQuery == [kind |-> "empty", rev |-> ""]
OtherQuery == [kind |-> "other", rev |-> ""]

UriFile(path) == [scheme |-> "file", fsPath |-> path, query |-> EmptyQuery]

toJJUri(uri, params) == [uri EXCEPT !.scheme = "jj", !.query = params]

ErrNoQuery == "URI has no query"
ErrBadQuery == "URI query is not JJUriParams"
ErrNoData == "provideFileDecoration was called before data was available"

\* getParams(uri): the parameters, or the error thrown
getParams(uri) ==
    IF uri.query.kind = "empty" THEN [threw |-> ErrNoQuery, params |-> uri.query]
    ELSE IF uri.query.kind \notin {"rev", "diffOriginalRev"}
         THEN [threw |-> ErrBadQuery, params |-> uri.query]
         ELSE [threw |-> "", params |-> uri.query]

\* the value of a Set<string> | null
NoTracking == [tracking |-> FALSE, files |-> {}]
Tracking(files) == [tracking |-> TRUE, files |-> files]
\* trackedFiles ?? []
FilesOf(tracked) == IF tracked.tracking THEN tracked.files ELSE {}

\* inputs of onRefresh: at most one status per change, conflicts in at most
\* one change
FileStatus(path, type) == [path |-> path, type |-> type]
WorkingCopyLists ==
    { <<>>, <<FileStatus("/r/a", "A")>>, <<FileStatus("/r/a", "M")>>,
      <<FileStatus("/r/B", "A")>> }
ParentLists == { <<>>, <<FileStatus("/r/B", "M")>> }
StatusMaps ==
    { [r \in Revs |-> IF r = "@" THEN atList ELSE kList] :
        atList \in WorkingCopyLists, kList \in ParentLists }
ConflictMaps ==
    { [r \in Revs |-> {}],
      [r \in Revs |-> IF r = "@" THEN {"/r/a"} ELSE {}],
      [r \in Revs |-> IF r = "k" THEN {"/r/B"} ELSE {}] }
TrackedInputs == { NoTracking, Tracking({"/r/a"}), Tracking({"/r/a", "/r/B"}) }

\* inputs of provideFileDecoration
UriInputs ==
    { UriFile(path) : path \in Paths }
        \cup { [scheme |-> "jj", fsPath |-> "/r/a", query |-> q] :
                 q \in { RevParams("@"), RevParams("k"), DiffOriginalRevParams("k"),
                         EmptyQuery, OtherQuery } }

EmptyMap == [key \in {} |-> [badge |-> "", color |-> ""]]
NoOp == [op |-> "none", registered |-> FALSE, fired |-> FALSE, uris |-> {},
         threw |-> "", result |-> {}]

\* --------------------------------------------------- graph tree: values
Roots == {"/r1", "/r2"}
NoCall == [st |-> "idle", prev |-> <<>>]

\* the changes jj reports: "w" is the working copy, a child of "a"
wcW == [changeId |-> "w", parentChangeIds |-> <<"a">>, isCurrentWorkingCopy |-> TRUE,
        isImmutable |-> FALSE, isSynced |-> TRUE, bookmarks |-> <<>>, isEmpty |-> TRUE]
chA == [changeId |-> "a", parentChangeIds |-> <<>>, isCurrentWorkingCopy |-> FALSE,
        isImmutable |-> FALSE, isSynced |-> TRUE, bookmarks |-> <<>>, isEmpty |-> FALSE]
chALocked == [chA EXCEPT !.isImmutable = TRUE]
chB == [changeId |-> "b", parentChangeIds |-> <<"a">>, isCurrentWorkingCopy |-> FALSE,
        isImmutable |-> FALSE, isSynced |-> TRUE, bookmarks |-> <<"main">>,
        isEmpty |-> TRUE]

\* what showAll can resolve to
ShowAllResults == { <<>>, <<wcW, chA>>, <<wcW, chALocked>>, <<chB, wcW, chA>> }

\* getIcon: the kind of icon; "none" stands for undefined
getIcon(change) ==
    IF change.isImmutable THEN "lock"
    ELSE IF ~change.isSynced THEN "cloud-upload"
    ELSE IF change.bookmarks # <<>> THEN "bookmark"
    ELSE "none"

\* new GraphTreeItem(change, childrenChangeIds, this), built by call c of refresh.
\* iconPath is an object: a ThemeIcon made by this constructor is the pair of
\* its kind and the call that made it, and undefined is <<"none", 0>>. The
\* label, the tooltip and the command take no part in equals and are left out.
GraphTreeItem(change, childrenChangeIds, c) ==
    [id |-> change.changeId,
     collapsibleState |-> IF childrenChangeIds # <<>> THEN "Expanded" ELSE "None",
     iconPath |-> IF getIcon(change) = "none" THEN <<"none", 0>>
                  ELSE <<getIcon(change), c>>,
     description |-> IF change.isEmpty THEN "empty" ELSE "",
     contextValue |-> IF ~change.isImmutable THEN "mutable" ELSE "",
     parentChangeIds |-> change.parentChangeIds]

\* GraphTreeItem.equals: === on iconPath compares the two objects
equals(this, other) ==
    /\ this.id = other.id
    /\ this.collapsibleState = other.collapsibleState
    /\ this.iconPath = other.iconPath
    /\ this.description = other.description
    /\ this.contextValue = other.contextValue

includes(seq, x) == \E i \in 1..Len(seq) : seq[i] = x

\* the tree data provider as its constructor leaves it
TreeConstructed ==
    /\ items = <<>>
    /\ itemChangeIds = {}
    /\ workingCopyChange = {}
    /\ selectedRepository = "/r1"
    /\ treeCalls = [c \in 1..MaxTreeCalls |-> NoCall]
    /\ treeFired = 0
    /\ revealed = "none"

\* ------------------------------------------------ graph webview: values
Nodes == {"a", "b"}
UpdateGraph == [command |-> "updateGraph", preserveScroll |-> TRUE]

\* the webview provider as its constructor leaves it
WebviewConstructed ==
    /\ panel = FALSE
    /\ repository = "/r1"
    /\ selectedNodes = {}
    /\ resolving = "none"
    /\ webviewReady = FALSE
    /\ webCalls = [c \in 0..MaxWebCalls |-> "idle"]
    /\ posted = <<>>

\* the provider as its constructor leaves it
Constructed ==
    /\ decorations = EmptyMap
    /\ trackedFiles = NoTracking
    /\ hasData = FALSE
    /\ registerCalls = 0
    /\ fireCount = 0
    /\ refreshCalls = 0
    /\ lastOp = NoOp

\* ------------------------------------------------------------ initial state
NoHistory ==
    [ fileEver |-> FALSE,           \* "0" has existed during the run
      \* recorded while monitoring is enabled:
      diedAbsent |-> FALSE,         \* the parent died while "0" was absent
      diedBeforeTimeout |-> FALSE,  \* ... at a time before TOTAL_TIMEOUT_MS
      fileAfterDeath |-> FALSE,     \* "0" was created after the parent died
      spurious |-> FALSE ]          \* a liveness check failed on a live parent

\* the process and its parent at the start, whatever the directory holds
Started ==
    /\ pc = "pid"
    /\ argi = 0
    /\ outBuf = <<>> /\ outOut = <<>>
    /\ errBuf = <<>> /\ errOut = <<>>
    /\ ioFailed = {}
    /\ clock = 0
    /\ ticks = 0
    /\ monitoring = TRUE
    /\ ppid = 0
    /\ handles = 0
    /\ exitCode = -1
    /\ exitVia = "none"
    /\ parent = "alive"
    /\ parentAge = 0
    /\ transients = 0
    /\ lastAccess = "none"
    /\ lastProbe = "none"

\* A process that has just been started: nothing printed, no time elapsed,
\* the parent alive and the signal directory as the harness made it, empty.
Launched ==
    /\ Started
    /\ sigdir = {}
    /\ fileAge = 0
    /\ hist = NoHistory

Init ==
    /\ os \in {"posix", "windows"}
    /\ pid \in OwnPids
    /\ cwd \in Cwds
    /\ args \in ArgVectors
    /\ envSet \in BOOLEAN
    /\ launcher \in LauncherPids
    /\ creatable \in HarnessFiles
    /\ Launched
    /\ platform = "linux"
    /\ Constructed
    /\ TreeConstructed
    /\ WebviewConstructed

\* ------------------------------------------------------- the two writers
\* A flush of an empty buffer writes nothing and cannot fail.
FlushOutcomes(buf) == IF buf = <<>> THEN {TRUE} ELSE BOOLEAN

\* main returns an error: the start-up code logs the error name straight to
\* the diagnostic stream and exits with status 1; neither writer is flushed.
ErrorReturn(name, via) ==
    /\ pc' = "exited"
    /\ exitCode' = 1
    /\ exitVia' = via
    /\ errOut' = Append(errOut, "error: " \o name)
    /\ UNCHANGED << outBuf, outOut, errBuf >>

\* Faulty variant: the flushes happen but the call returns to its caller.
FlushAndExitReturns(code, via, msgs) ==
    /\ pc' = pc
    /\ exitCode' = code
    /\ exitVia' = via
    /\ outOut' = outOut \o outBuf /\ outBuf' = <<>>
    /\ errOut' = errOut \o errBuf \o msgs /\ errBuf' = <<>>
    /\ UNCHANGED ioFailed

\* Faulty variant: the status passed in is dropped.
FlushAndExitAlwaysZero(code, via, msgs) ==
    /\ pc' = "exited"
    /\ exitCode' = 0
    /\ exitVia' = via
    /\ outOut' = outOut \o outBuf /\ outBuf' = <<>>
    /\ errOut' = errOut \o errBuf \o msgs /\ errBuf' = <<>>
    /\ UNCHANGED ioFailed

\* stderr.print(msgs) followed by flushAndExit(stdout, stderr, code):
\* both flushes are attempted, a failure of either is ignored.
FlushAndExit(code, via, msgs) ==
    \E okOut \in FlushOutcomes(outBuf), okErr \in FlushOutcomes(errBuf \o msgs) :
        /\ pc' = "exited"
        /\ exitCode' = code
        /\ exitVia' = via
        /\ outOut' = IF okOut THEN outOut \o outBuf ELSE outOut
        /\ outBuf' = IF okOut THEN <<>> ELSE outBuf
        /\ errOut' = IF okErr THEN errOut \o errBuf \o msgs ELSE errOut
        /\ errBuf' = IF okErr THEN <<>> ELSE errBuf \o msgs
        /\ ioFailed' = ioFailed \cup (IF okOut THEN {} ELSE {"stdout"})
                                \cup (IF okErr THEN {} ELSE {"stderr"})

\* stdout.print(lines): the text goes to the buffer; when the buffer cannot
\* take it the buffered text is written out first, and that write can fail.
StdoutPrint(lines, next) ==
    \/ /\ outBuf' = outBuf \o lines
       /\ pc' = next
       /\ UNCHANGED << outOut, errBuf, errOut, ioFailed, exitCode, exitVia >>
    \/ /\ outBuf # <<>>
       /\ outOut' = outOut \o outBuf
       /\ outBuf' = lines
       /\ pc' = next
       /\ UNCHANGED << errBuf, errOut, ioFailed, exitCode, exitVia >>
    \/ /\ outBuf # <<>>
       /\ ioFailed' = ioFailed \cup {"stdout"}
       /\ ErrorReturn("WriteFailed", "write")

\* Faulty variant: the message is dropped.
StderrPrintDropped(msgs) ==
    UNCHANGED << errBuf, errOut >>

\* stderr.print(msgs) with no exit: every message of main is far shorter than
\* the 1024-byte buffer, which the few messages of one run never fill.
StderrPrint(msgs) ==
    /\ errBuf' = errBuf \o msgs
    /\ UNCHANGED errOut

\* ------------------------------------------------------ Identity Announcer
PrintPid ==
    /\ pc = "pid"
    /\ outBuf' = Append(outBuf, PidLine(pid))
    /\ pc' = "cwd"
    /\ UNCHANGED << argi, outOut, errBuf, errOut, ioFailed, clock, ticks, monitoring,
                    ppid, handles, exitCode, exitVia, lastAccess, lastProbe >>
    /\ UNCHANGED << extensionVars, inputVars, envVars, transients >>

PrintCwd ==
    /\ pc = "cwd"
    /\ \/ /\ ErrorReturn("CurrentWorkingDirectoryUnlinked", "getcwd")
          /\ UNCHANGED ioFailed
       \/ StdoutPrint(<<cwd>>, "argsAlloc")
    /\ UNCHANGED << argi, clock, ticks, monitoring, ppid, handles, lastAccess, lastProbe >>
    /\ UNCHANGED << extensionVars, inputVars, envVars, transients >>

ArgsAlloc ==
    /\ pc = "argsAlloc"
    /\ \/ /\ ErrorReturn("OutOfMemory", "argsAlloc")
          /\ UNCHANGED ioFailed
       \/ /\ pc' = "args"
          /\ UNCHANGED << outBuf, outOut, errBuf, errOut, ioFailed, exitCode, exitVia >>
    /\ UNCHANGED << argi, clock, ticks, monitoring, ppid, handles, lastAccess, lastProbe >>
    /\ UNCHANGED << extensionVars, inputVars, envVars, transients >>

\* Faulty variant: the arguments are printed last to first.
PrintArgReversed ==
    /\ pc = "args"
    /\ argi < Len(args)
    /\ argi' = argi + 1
    /\ StdoutPrint(args[Len(args) - argi], "args")
    /\ UNCHANGED << clock, ticks, monitoring, ppid, handles, lastAccess, lastProbe >>
    /\ UNCHANGED << extensionVars, inputVars, envVars, transients >>

PrintArg ==
    /\ pc = "args"
    /\ argi < Len(args)
    /\ argi' = argi + 1
    /\ StdoutPrint(args[argi + 1], "args")
    /\ UNCHANGED << clock, ticks, monitoring, ppid, handles, lastAccess, lastProbe >>
    /\ UNCHANGED << extensionVars, inputVars, envVars, transients >>

\* Faulty variant: the absence of the variable goes unnoticed.
GetEnvIgnoresAbsence ==
    /\ pc = "args"
    /\ argi = Len(args)
    /\ pc' = "sentinel"
    /\ UNCHANGED << outBuf, outOut, errBuf, errOut, ioFailed, exitCode, exitVia >>
    /\ UNCHANGED << argi, clock, ticks, monitoring, ppid, handles, lastAccess, lastProbe >>
    /\ UNCHANGED << extensionVars, inputVars, envVars, transients >>

GetEnv ==
    /\ pc = "args"
    /\ argi = Len(args)
    /\ IF envSet
       THEN /\ pc' = "sentinel"
            /\ UNCHANGED << outBuf, outOut, errBuf, errOut, ioFailed, exitCode, exitVia >>
       ELSE FlushAndExit(1, "env", <<MsgEnv>>)
    /\ UNCHANGED << argi, clock, ticks, monitoring, ppid, handles, lastAccess, lastProbe >>
    /\ UNCHANGED << extensionVars, inputVars, envVars, transients >>

\* Faulty variant: the line ending of the sentinel follows the platform.
PrintSentinelPlatform ==
    /\ pc = "sentinel"
    /\ StdoutPrint(<<IF os = "windows" THEN "FAKEEDITOR_OUTPUT_END\r" ELSE SENTINEL>>, "flush")
    /\ UNCHANGED << argi, clock, ticks, monitoring, ppid, handles, lastAccess, lastProbe >>
    /\ UNCHANGED << extensionVars, inputVars, envVars, transients >>

PrintSentinel ==
    /\ pc = "sentinel"
    /\ StdoutPrint(<<SENTINEL>>, "flush")
    /\ UNCHANGED << argi, clock, ticks, monitoring, ppid, handles, lastAccess, lastProbe >>
    /\ UNCHANGED << extensionVars, inputVars, envVars, transients >>

\* Faulty variant: the flush after the sentinel is missing.
FlushStdoutMissing ==
    /\ pc = "flush"
    /\ pc' = "join"
    /\ UNCHANGED << outBuf, outOut, errBuf, errOut, ioFailed, exitCode, exitVia >>
    /\ UNCHANGED << argi, clock, ticks, monitoring, ppid, handles, lastAccess, lastProbe >>
    /\ UNCHANGED << extensionVars, inputVars, envVars, transients >>

FlushStdout ==
    /\ pc = "flush"
    /\ \/ /\ outOut' = outOut \o outBuf
          /\ outBuf' = <<>>
          /\ pc' = "join"
          /\ UNCHANGED << errBuf, errOut, ioFailed, exitCode, exitVia >>
       \/ /\ ioFailed' = ioFailed \cup {"stdout"}
          /\ ErrorReturn("WriteFailed", "write")
    /\ UNCHANGED << argi, clock, ticks, monitoring, ppid, handles, lastAccess, lastProbe >>
    /\ UNCHANGED << extensionVars, inputVars, envVars, transients >>

\* --------------------------------------------- start of the wait: set-up
\* start_time is captured, the signal file path is built.  The time the
\* set-up work takes before the first loop iteration is added here.
JoinPath ==
    /\ pc = "join"
    /\ \/ /\ FlushAndExit(1, "join", <<MsgJoin>>)
          /\ UNCHANGED clock
       \/ /\ pc' = "resolve"
          /\ clock' \in StartupDelays
          /\ UNCHANGED << outBuf, outOut, errBuf, errOut, ioFailed, exitCode, exitVia >>
    /\ UNCHANGED << argi, ticks, monitoring, ppid, handles, lastAccess, lastProbe >>
    /\ UNCHANGED << extensionVars, inputVars, envVars, transients >>

\* getppid(): the launcher while it lives, the reaper once it has exited
Getppid == IF parent = "dead" THEN INIT_PID ELSE launcher

\* Faulty variant: the reaper is taken for an ordinary parent.
ReparentedNever(p) == FALSE

Reparented(p) == p = INIT_PID

ResolveParentPosix ==
    /\ pc = "resolve"
    /\ os = "posix"
    /\ ppid' = Getppid
    /\ IF Reparented(ppid')
       THEN FlushAndExit(1, "init", <<MsgInit>>)
       ELSE /\ pc' = "timeout"
            /\ UNCHANGED << outBuf, outOut, errBuf, errOut, ioFailed, exitCode, exitVia >>
    /\ UNCHANGED << argi, clock, ticks, monitoring, handles, lastAccess, lastProbe >>
    /\ UNCHANGED << extensionVars, inputVars, envVars, transients >>

\* getParentPidWindows, first half: CreateToolhelp32Snapshot
WinSnapshot ==
    /\ pc = "resolve"
    /\ os = "windows"
    /\ \/ /\ StderrPrint(<<MsgSnapshot, MsgWinWarn>>)
          /\ monitoring' = FALSE
          /\ ppid' = 0
          /\ pc' = "timeout"
          /\ UNCHANGED handles
       \/ /\ handles' = handles + 1
          /\ pc' = "walk"
          /\ UNCHANGED << errBuf, errOut, monitoring, ppid >>
    /\ UNCHANGED << argi, outBuf, outOut, ioFailed, clock, ticks, exitCode, exitVia,
                    lastAccess, lastProbe >>
    /\ UNCHANGED << extensionVars, inputVars, envVars, transients >>

\* the errors of the walk and the lines each writes before the warning
WalkErrors ==
    { <<MsgFirst>>, <<MsgNext>>, <<MsgIdle>>, <<>> }

\* Faulty variant: a failed walk leaves monitoring enabled.
WinWalkKeepsMonitoring ==
    /\ pc = "walk"
    /\ handles' = handles - 1
    /\ \/ \E e \in WalkErrors :
            /\ StderrPrint(e \o <<MsgWinWarn>>)
            /\ ppid' = 0
            /\ UNCHANGED monitoring
       \/ /\ ppid' = launcher
          /\ UNCHANGED << errBuf, errOut, monitoring >>
    /\ pc' = "timeout"
    /\ UNCHANGED << argi, outBuf, outOut, ioFailed, clock, ticks, exitCode, exitVia,
                    lastAccess, lastProbe >>
    /\ UNCHANGED << extensionVars, inputVars, envVars, transients >>

\* getParentPidWindows, second half: the walk over the snapshot; the
\* snapshot handle is closed on every return.
WinWalk ==
    /\ pc = "walk"
    /\ handles' = handles - 1
    /\ \/ \E e \in WalkErrors :
            /\ StderrPrint(e \o <<MsgWinWarn>>)
            /\ monitoring' = FALSE
            /\ ppid' = 0
       \/ /\ ppid' = launcher
          /\ UNCHANGED << errBuf, errOut, monitoring >>
    /\ pc' = "timeout"
    /\ UNCHANGED << argi, outBuf, outOut, ioFailed, clock, ticks, exitCode, exitVia,
                    lastAccess, lastProbe >>
    /\ UNCHANGED << extensionVars, inputVars, envVars, transients >>

\* ------------------------------------------------------------ the wait loop
\* Faulty variant: the comparison is strict.
TimedOutStrict(elapsed_ms) == elapsed_ms > TOTAL_TIMEOUT_MS

TimedOut(elapsed_ms) == elapsed_ms >= TOTAL_TIMEOUT_MS

TimeoutCheck ==
    /\ pc = "timeout"
    /\ ticks' = ticks + 1
    /\ IF TimedOut(clock)
       THEN FlushAndExit(1, "timeout", <<MsgTimeout>>)
       ELSE /\ pc' = "parent"
            /\ UNCHANGED << outBuf, outOut, errBuf, errOut, ioFailed, exitCode, exitVia >>
    /\ UNCHANGED << argi, clock, monitoring, ppid, handles, lastAccess, lastProbe >>
    /\ UNCHANGED << extensionVars, inputVars, envVars, transients >>

ParentCheckDisabled ==
    /\ pc = "parent"
    /\ ~monitoring
    /\ pc' = "signal"
    /\ UNCHANGED << argi, outBuf, outOut, errBuf, errOut, ioFailed, clock, ticks,
                    monitoring, ppid, handles, exitCode, exitVia, lastAccess, lastProbe >>
    /\ UNCHANGED << extensionVars, inputVars, envVars, transients >>

\* Faulty variant: no-such-process is handled like any other probe error.
ParentCheckPosixIgnoresGone ==
    /\ pc = "parent"
    /\ monitoring
    /\ os = "posix"
    /\ lastProbe' = IF parent = "dead" THEN "gone" ELSE "alive"
    /\ pc' = "signal"
    /\ UNCHANGED << outBuf, outOut, errBuf, errOut, ioFailed, exitCode, exitVia >>
    /\ UNCHANGED << argi, clock, ticks, monitoring, ppid, handles, lastAccess >>
    /\ UNCHANGED << extensionVars, inputVars, envVars, transients >>

\* std.posix.kill(ppid, 0): no such process once the parent is dead;
\* on a live parent it succeeds or fails with another error
ParentCheckPosix ==
    /\ pc = "parent"
    /\ monitoring
    /\ os = "posix"
    /\ \/ /\ parent = "dead"
          /\ lastProbe' = "gone"
          /\ FlushAndExit(1, "gone", <<MsgGonePosix>>)
          /\ UNCHANGED transients
       \/ /\ parent = "alive"
          /\ lastProbe' = "alive"
          /\ pc' = "signal"
          /\ UNCHANGED << outBuf, outOut, errBuf, errOut, ioFailed, exitCode, exitVia,
                          transients >>
       \/ /\ parent = "alive"
          /\ transients < MaxTransient
          /\ transients' = transients + 1
          /\ lastProbe' = "error"
          /\ pc' = "signal"
          /\ UNCHANGED << outBuf, outOut, errBuf, errOut, ioFailed, exitCode, exitVia >>
    /\ UNCHANGED << argi, clock, ticks, monitoring, ppid, handles, lastAccess >>
    /\ UNCHANGED << extensionVars, inputVars, envVars >>

\* parentProcessExistsWindows, first half: OpenProcess(SYNCHRONIZE).  It
\* fails when the parent is gone, and can fail on a live parent that this
\* process may not open.
ParentOpenWindows ==
    /\ pc = "parent"
    /\ monitoring
    /\ os = "windows"
    /\ \/ /\ lastProbe' = "gone"
          /\ hist' = [hist EXCEPT !.spurious = @ \/ parent = "alive"]
          /\ FlushAndExit(1, "gone", <<MsgGoneWin>>)
          /\ UNCHANGED handles
       \/ /\ handles' = handles + 1
          /\ pc' = "wait"
          /\ UNCHANGED << outBuf, outOut, errBuf, errOut, ioFailed, exitCode, exitVia,
                          lastProbe, hist >>
    /\ UNCHANGED << argi, clock, ticks, monitoring, ppid, lastAccess >>
    /\ UNCHANGED << extensionVars, inputVars, parent, parentAge, sigdir, fileAge, transients >>

\* Faulty variant: the handle is closed only when the parent is alive.
ParentWaitWindowsLeaks ==
    /\ pc = "wait"
    /\ \/ /\ parent = "dead"
          /\ lastProbe' = "gone"
          /\ FlushAndExit(1, "gone", <<MsgGoneWin>>)
          /\ UNCHANGED << hist, handles >>
       \/ /\ parent = "alive"
          /\ lastProbe' = "alive"
          /\ pc' = "signal"
          /\ handles' = handles - 1
          /\ UNCHANGED << outBuf, outOut, errBuf, errOut, ioFailed, exitCode, exitVia,
                          hist >>
       \/ /\ lastProbe' = "gone"
          /\ hist' = [hist EXCEPT !.spurious = @ \/ parent = "alive"]
          /\ FlushAndExit(1, "gone", <<MsgWait, MsgGoneWin>>)
          /\ UNCHANGED handles
    /\ UNCHANGED << argi, clock, ticks, monitoring, ppid, lastAccess >>
    /\ UNCHANGED << extensionVars, inputVars, parent, parentAge, sigdir, fileAge, transients >>

\* Faulty variant: the two results of the wait are taken for each other.
ParentWaitWindowsSwapped ==
    /\ pc = "wait"
    /\ handles' = handles - 1
    /\ \/ /\ parent = "alive"
          /\ lastProbe' = "gone"
          /\ hist' = [hist EXCEPT !.spurious = TRUE]
          /\ FlushAndExit(1, "gone", <<MsgGoneWin>>)
       \/ /\ parent = "dead"
          /\ lastProbe' = "alive"
          /\ pc' = "signal"
          /\ UNCHANGED << outBuf, outOut, errBuf, errOut, ioFailed, exitCode, exitVia,
                          hist >>
    /\ UNCHANGED << argi, clock, ticks, monitoring, ppid, lastAccess >>
    /\ UNCHANGED << extensionVars, inputVars, parent, parentAge, sigdir, fileAge, transients >>

\* parentProcessExistsWindows, second half: WaitForSingleObject(h, 0) and
\* the deferred CloseHandle
ParentWaitWindows ==
    /\ pc = "wait"
    /\ handles' = handles - 1
    /\ \/ /\ parent = "dead"                          \* WAIT_OBJECT_0
          /\ lastProbe' = "gone"
          /\ FlushAndExit(1, "gone", <<MsgGoneWin>>)
          /\ UNCHANGED hist
       \/ /\ parent = "alive"                         \* WAIT_TIMEOUT
          /\ lastProbe' = "alive"
          /\ pc' = "signal"
          /\ UNCHANGED << outBuf, outOut, errBuf, errOut, ioFailed, exitCode, exitVia,
                          hist >>
       \/ /\ lastProbe' = "gone"                      \* WAIT_FAILED
          /\ hist' = [hist EXCEPT !.spurious = @ \/ parent = "alive"]
          /\ FlushAndExit(1, "gone", <<MsgWait, MsgGoneWin>>)
    /\ UNCHANGED << argi, clock, ticks, monitoring, ppid, lastAccess >>
    /\ UNCHANGED << extensionVars, inputVars, parent, parentAge, sigdir, fileAge, transients >>

\* Faulty variant: the path checked ends in another name.
AccessResultsWrongName ==
    (IF "1" \in sigdir THEN {"ok"} ELSE {"notfound"})
        \cup (IF transients < MaxTransient THEN {"error"} ELSE {})

\* Faulty variant: only a file created a short while ago counts.
AccessOfFresh(dir) ==
    (IF SIGNAL_FILE \in dir /\ fileAge < 2 THEN {"ok"} ELSE {"notfound"})
        \cup (IF transients < MaxTransient THEN {"error"} ELSE {})

\* Faulty variant: a file seen in the directory at any time still counts.
AccessOfEverSeen(dir) ==
    (IF SIGNAL_FILE \in dir \/ hist.fileEver THEN {"ok"} ELSE {"notfound"})
        \cup (IF transients < MaxTransient THEN {"error"} ELSE {})

\* Faulty variant: any entry of the directory counts as the signal.
AccessOfAnyFile(dir) ==
    (IF dir # {} THEN {"ok"} ELSE {"notfound"})
        \cup (IF transients < MaxTransient THEN {"error"} ELSE {})

\* std.fs.accessAbsolute(signal_file_path) in a directory holding the files
\* dir: the path is <dir>/0, whatever else the directory holds
AccessOf(dir) ==
    (IF SIGNAL_FILE \in dir THEN {"ok"} ELSE {"notfound"})
        \cup (IF transients < MaxTransient THEN {"error"} ELSE {})

\* std.fs.accessAbsolute(signal_file_path): what it can return given the
\* directory
AccessResults == AccessOf(sigdir)

\* Faulty variant: an access error other than not-found ends the run.
SignalCheckErrorEnds ==
    /\ pc = "signal"
    /\ \E r \in AccessResults :
        /\ lastAccess' = r
        /\ transients' = IF r = "error" THEN transients + 1 ELSE transients
        /\ IF r = "ok" THEN FlushAndExit(0, "signal", <<>>)
           ELSE IF r = "error" THEN FlushAndExit(1, "signal", <<MsgAccess>>)
           ELSE /\ pc' = "sleep"
                /\ UNCHANGED << outBuf, outOut, errBuf, errOut, ioFailed, exitCode, exitVia >>
    /\ UNCHANGED << argi, clock, ticks, monitoring, ppid, handles, lastProbe >>
    /\ UNCHANGED << extensionVars, inputVars, envVars >>

\* Faulty variant: the check consumes the file it finds.
SignalCheckConsumes ==
    /\ pc = "signal"
    /\ \E r \in AccessResults :
        /\ lastAccess' = r
        /\ transients' = IF r = "error" THEN transients + 1 ELSE transients
        /\ sigdir' = IF r = "ok" THEN sigdir \ {SIGNAL_FILE} ELSE sigdir
        /\ IF r = "ok"
           THEN FlushAndExit(0, "signal", <<>>)
           ELSE /\ pc' = "sleep"
                /\ StderrPrint(IF r = "error" THEN <<MsgAccess>> ELSE <<>>)
                /\ UNCHANGED << outBuf, outOut, ioFailed, exitCode, exitVia >>
    /\ UNCHANGED << argi, clock, ticks, monitoring, ppid, handles, lastProbe >>
    /\ UNCHANGED << extensionVars, inputVars, parent, parentAge, fileAge, hist >>

SignalCheck ==
    /\ pc = "signal"
    /\ \E r \in AccessResults :
        /\ lastAccess' = r
        /\ transients' = IF r = "error" THEN transients + 1 ELSE transients
        /\ IF r = "ok"
           THEN FlushAndExit(0, "signal", <<>>)
           ELSE /\ pc' = "sleep"
                /\ StderrPrint(IF r = "error" THEN <<MsgAccess>> ELSE <<>>)
                /\ UNCHANGED << outBuf, outOut, ioFailed, exitCode, exitVia >>
    /\ UNCHANGED << argi, clock, ticks, monitoring, ppid, handles, lastProbe >>
    /\ UNCHANGED << extensionVars, inputVars, envVars >>

Sleep ==
    /\ pc = "sleep"
    /\ clock' = clock + POLLING_INTERVAL_MS
    /\ parentAge' = IF parent = "dead" /\ monitoring THEN Older(parentAge) ELSE parentAge
    /\ fileAge' = IF SIGNAL_FILE \in sigdir THEN Older(fileAge) ELSE fileAge
    /\ pc' = "timeout"
    /\ lastAccess' = "none"
    /\ lastProbe' = "none"
    /\ UNCHANGED << argi, outBuf, outOut, errBuf, errOut, ioFailed, ticks, monitoring,
                    ppid, handles, exitCode, exitVia >>
    /\ UNCHANGED << extensionVars, inputVars, parent, sigdir, hist, transients >>

\* ---------------------------------------------------------- the environment
InLoop == pc \in {"timeout", "parent", "wait", "signal", "sleep"}

ParentExits ==
    /\ pc # "exited"
    /\ parent = "alive"
    /\ parent' = "dead"
    /\ parentAge' = 0
    /\ hist' = IF monitoring
               THEN [hist EXCEPT !.diedAbsent = SIGNAL_FILE \notin sigdir,
                                 !.diedBeforeTimeout = clock < TOTAL_TIMEOUT_MS]
               ELSE hist
    /\ UNCHANGED << extensionVars, procVars, inputVars, sigdir, fileAge, transients >>

HarnessCreates ==
    /\ pc # "exited"
    /\ \E f \in creatable \ sigdir :
        /\ sigdir' = sigdir \cup {f}
        /\ fileAge' = IF f = SIGNAL_FILE THEN 0 ELSE fileAge
        /\ hist' = IF f = SIGNAL_FILE
                   THEN [hist EXCEPT !.fileEver = TRUE,
                                     !.fileAfterDeath = @ \/ (parent = "dead" /\ monitoring)]
                   ELSE hist
    /\ UNCHANGED << extensionVars, procVars, inputVars, parent, parentAge, transients >>

HarnessRemoves ==
    /\ pc # "exited"
    /\ \E f \in sigdir :
        /\ sigdir' = sigdir \ {f}
        /\ fileAge' = IF f = SIGNAL_FILE THEN 0 ELSE fileAge
    /\ UNCHANGED << extensionVars, procVars, inputVars, parent, parentAge, hist, transients >>

\* -------------------------------------------------------------------- specs
Process ==
    \/ PrintPid \/ PrintCwd \/ ArgsAlloc \/ PrintArg \/ GetEnv \/ PrintSentinel
    \/ FlushStdout \/ JoinPath \/ ResolveParentPosix \/ WinSnapshot \/ WinWalk
    \/ TimeoutCheck \/ ParentCheckDisabled \/ ParentCheckPosix \/ ParentOpenWindows
    \/ ParentWaitWindows \/ SignalCheck \/ Sleep

Environment == ParentExits \/ HarnessCreates \/ HarnessRemoves

Next == Process \/ Environment

Spec == Init /\ [][Next]_vars

\* The process is the only thread of a running program: it keeps taking steps.
FairSpec == Spec /\ WF_vars(Process)

\* Runs in which the harness also puts files of other names in the directory.
OtherFiles == FileNames \ {SIGNAL_FILE}

InitOtherFiles ==
    /\ os \in {"posix", "windows"}
    /\ pid \in OwnPids
    /\ cwd \in Cwds
    /\ args = << <<"fakeeditor">>, <<"--edit">>, <<"msg.txt">> >>
    /\ envSet = TRUE
    /\ launcher \in LauncherPids
    /\ creatable \in {OtherFiles, FileNames}
    /\ Launched
    /\ platform = "linux"
    /\ Constructed
    /\ TreeConstructed
    /\ WebviewConstructed

SpecOtherFiles == InitOtherFiles /\ [][Next]_vars

\* Runs whose signal file is in the directory before the process starts; the
\* harness creates no second one.
InitFilePresent ==
    /\ os \in {"posix", "windows"}
    /\ pid \in OwnPids
    /\ cwd \in Cwds
    /\ args = << <<"fakeeditor">>, <<"--edit">>, <<"msg.txt">> >>
    /\ envSet = TRUE
    /\ launcher \in LauncherPids
    /\ creatable = OtherFiles
    /\ Started
    /\ sigdir = {SIGNAL_FILE}
    /\ fileAge = 2
    /\ hist = [NoHistory EXCEPT !.fileEver = TRUE]
    /\ platform = "linux"
    /\ Constructed
    /\ TreeConstructed
    /\ WebviewConstructed

SpecFilePresent == InitFilePresent /\ [][Next]_vars

\* ------------------------------------------ decoration provider: methods
\* Map.prototype.set
Put(map, key, value) ==
    [k \in (DOMAIN map) \cup {key} |-> IF k = key THEN value ELSE map[k]]

\* for (const fileStatus of fileStatuses) nextDecorations.set(key, ...)
\* (the tooltip of a decoration is left out)
RECURSIVE WithStatuses(_, _, _)
WithStatuses(map, changeId, fileStatuses) ==
    IF fileStatuses = <<>> THEN map
    ELSE LET fileStatus == Head(fileStatuses)
             key == getKey(fileStatus.path, changeId)
         IN WithStatuses(Put(map, key, [badge |-> fileStatus.type,
                                        color |-> colorOfType(fileStatus.type)]),
                         changeId, Tail(fileStatuses))

\* for (const file of files): "!" alone, or appended to the badge there is
RECURSIVE WithConflicts(_, _, _)
WithConflicts(map, changeId, files) ==
    IF files = {} THEN map
    ELSE LET file == CHOOSE f \in files : TRUE
             key == getKey(file, changeId)
             next == IF key \in DOMAIN map
                     THEN [badge |-> map[key].badge \o "!", color |-> ConflictColor]
                     ELSE [badge |-> "!", color |-> ConflictColor]
         IN WithConflicts(Put(map, key, next), changeId, files \ {file})

\* the two loops over the changes; the keys of different changes differ, so
\* the order of the changes is immaterial
RECURSIVE StatusLoop(_, _, _)
StatusLoop(map, fileStatusesByChange, revs) ==
    IF revs = {} THEN map
    ELSE LET changeId == CHOOSE r \in revs : TRUE
         IN StatusLoop(WithStatuses(map, changeId, fileStatusesByChange[changeId]),
                       fileStatusesByChange, revs \ {changeId})

RECURSIVE ConflictLoop(_, _, _)
ConflictLoop(map, conflictedFiles, revs) ==
    IF revs = {} THEN map
    ELSE LET changeId == CHOOSE r \in revs : TRUE
         IN ConflictLoop(WithConflicts(map, changeId, conflictedFiles[changeId]),
                         conflictedFiles, revs \ {changeId})

NextDecorations(fileStatusesByChange, conflictedFiles) ==
    ConflictLoop(StatusLoop(EmptyMap, fileStatusesByChange, Revs), conflictedFiles, Revs)

changedDecorationKeys(nextDecorations) ==
    { key \in DOMAIN nextDecorations :
        \/ key \notin DOMAIN decorations
        \/ decorations[key].badge # nextDecorations[key].badge }
        \cup { key \in DOMAIN decorations : key \notin DOMAIN nextDecorations }

changedTrackedFiles(tracked) ==
    { file \in FilesOf(tracked) :
        ~trackedFiles.tracking \/ file \notin trackedFiles.files }
        \cup { file \in FilesOf(trackedFiles) :
                 ~tracked.tracking \/ file \notin tracked.files }

\* the array handed to the event, as the set of its elements
changedUris(keys, files) ==
    { toJJUri(UriFile(parseKey(key).fsPath), RevParams(parseKey(key).rev)) : key \in keys }
        \cup { UriFile(parseKey(key).fsPath) : key \in { k \in keys : parseKey(k).rev = "@" } }
        \cup { UriFile(file) : file \in files }

\* Faulty variant: hasData is never set.
AnnounceForgetsHasData(keys, files) ==
    /\ UNCHANGED << hasData, fireCount >>
    /\ registerCalls' = registerCalls + 1
    /\ lastOp' = [NoOp EXCEPT !.op = "onRefresh", !.registered = TRUE]

\* the end of onRefresh: the first call registers the provider and returns,
\* every other call fires the event
Announce(keys, files) ==
    IF ~hasData
    THEN /\ hasData' = TRUE
         /\ registerCalls' = registerCalls + 1
         /\ UNCHANGED fireCount
         /\ lastOp' = [NoOp EXCEPT !.op = "onRefresh", !.registered = TRUE]
    ELSE /\ UNCHANGED << hasData, registerCalls >>
         /\ fireCount' = fireCount + 1
         /\ lastOp' = [NoOp EXCEPT !.op = "onRefresh", !.fired = TRUE,
                                   !.uris = changedUris(keys, files)]

onRefresh ==
    /\ refreshCalls < MaxRefreshCalls
    /\ \E fileStatusesByChange \in StatusMaps, tracked \in TrackedInputs,
          conflictedFiles \in ConflictMaps :
        LET lowered == IF tracked.tracking /\ platform = "win32"
                       THEN Tracking(convertSetToLowercase(tracked.files))
                       ELSE tracked
            nextDecorations == NextDecorations(fileStatusesByChange, conflictedFiles)
        IN /\ decorations' = nextDecorations
           /\ trackedFiles' = lowered
           /\ Announce(changedDecorationKeys(nextDecorations), changedTrackedFiles(lowered))
    /\ refreshCalls' = refreshCalls + 1
    /\ UNCHANGED platform
    /\ UNCHANGED << procVars, inputVars, envVars, transients, treeVars, webVars >>

\* provideFileDecoration once data is there: the value returned, as the set
\* holding it (empty for undefined), or the error thrown by getParams
Lookup(uri) ==
    LET got == IF uri.scheme = "jj" THEN getParams(uri)
               ELSE [threw |-> "", params |-> RevParams("@")]
        rev == got.params.rev
        key == getKey(uri.fsPath, rev)
        fsPath == IF platform = "win32" THEN toLowerCase(uri.fsPath) ELSE uri.fsPath
    IN IF got.threw # "" THEN [threw |-> got.threw, result |-> {}]
       ELSE IF uri.scheme = "jj" /\ got.params.kind = "diffOriginalRev"
            THEN [threw |-> "", result |-> {}]
       ELSE IF /\ rev = "@"
               /\ key \notin DOMAIN decorations
               /\ trackedFiles.tracking
               /\ fsPath \notin trackedFiles.files
            THEN [threw |-> "", result |-> {[badge |-> "", color |-> IgnoredColor]}]
       ELSE [threw |-> "",
             result |-> IF key \in DOMAIN decorations THEN {decorations[key]} ELSE {}]

\* Faulty variant: the guard on hasData is missing.
provideUnguarded(uri) == Lookup(uri)

provideFileDecorationResult(uri) ==
    IF ~hasData THEN [threw |-> ErrNoData, result |-> {}]
    ELSE Lookup(uri)

provideFileDecoration ==
    /\ \E uri \in UriInputs :
        LET outcome == provideFileDecorationResult(uri)
        IN lastOp' = [NoOp EXCEPT !.op = "provideFileDecoration",
                                  !.threw = outcome.threw, !.result = outcome.result]
    /\ UNCHANGED << platform, decorations, trackedFiles, hasData, registerCalls,
                    fireCount, refreshCalls >>
    /\ UNCHANGED << procVars, inputVars, envVars, transients, treeVars, webVars >>

\* The stand-in plays no part in a run of the provider.
InitDecorations ==
    /\ os = "posix"
    /\ pid \in OwnPids
    /\ cwd \in Cwds
    /\ args = << <<"fakeeditor">>, <<"--edit">>, <<"msg.txt">> >>
    /\ envSet = TRUE
    /\ launcher \in LauncherPids
    /\ creatable = {}
    /\ Launched
    /\ platform \in Platforms
    /\ Constructed
    /\ TreeConstructed
    /\ WebviewConstructed

DecorationsNext == onRefresh \/ provideFileDecoration

SpecDecorations == InitDecorations /\ [][DecorationsNext]_vars

\* --------------------------------------------------- graph tree: methods
\* the results that are rendered: all but the working copy
Rendered(results) == SelectSeq(results, LAMBDA r : ~r.isCurrentWorkingCopy)

\* the rendered results that name the change as a parent
ChildrenOf(results, change) ==
    SelectSeq(Rendered(results), LAMBDA r : includes(r.parentChangeIds, change.changeId))

childrenChangeIds(results, change) ==
    [i \in 1..Len(ChildrenOf(results, change)) |-> ChildrenOf(results, change)[i].changeId]

\* the loop of refresh over the results, run by call c
BuildItems(results, c) ==
    [i \in 1..Len(Rendered(results)) |->
        GraphTreeItem(Rendered(results)[i], childrenChangeIds(results, Rendered(results)[i]), c)]

\* the working copy the loop leaves recorded
WorkingCopyAfter(results) ==
    IF \E i \in 1..Len(results) : results[i].isCurrentWorkingCopy
    THEN {results[CHOOSE i \in 1..Len(results) :
                      /\ results[i].isCurrentWorkingCopy
                      /\ \A j \in (i + 1)..Len(results) : ~results[j].isCurrentWorkingCopy]}
    ELSE workingCopyChange

\* the test of refresh on prev and the items just installed
ListChanged(prev, now) ==
    \/ Len(prev) # Len(now)
    \/ \E i \in 1..Len(prev) : ~equals(prev[i], now[i])

\* updateSelection: the item left selected in the tree view
SelectionAfter(visible, wc, now) ==
    IF ~visible \/ wc = {} THEN revealed
    ELSE LET parents == (CHOOSE w \in wc : TRUE).parentChangeIds
             hits == SelectSeq(now, LAMBDA item : includes(parents, item.id))
         IN  IF hits = <<>> THEN revealed ELSE hits[Len(hits)].id

CanBegin == \E c \in 1..MaxTreeCalls : treeCalls[c].st = "idle"

\* a call of refresh up to its await: it takes prev and asks for showAll
BeginRefresh ==
    LET c == CHOOSE c \in 1..MaxTreeCalls :
                 /\ treeCalls[c].st = "idle"
                 /\ \A d \in 1..(c - 1) : treeCalls[d].st # "idle"
    IN  treeCalls' = [treeCalls EXCEPT ![c] = [st |-> "showAll", prev |-> items]]

\* refresh(treeView) is called
refresh ==
    /\ CanBegin
    /\ BeginRefresh
    /\ UNCHANGED << items, itemChangeIds, workingCopyChange, selectedRepository,
                    treeFired, revealed >>
    /\ UNCHANGED << procVars, inputVars, envVars, transients, decoVars, webVars >>

\* showAll resolves and the call of refresh runs on to its end
showAllResolves ==
    \E c \in 1..MaxTreeCalls, results \in ShowAllResults, visible \in BOOLEAN :
        /\ treeCalls[c].st = "showAll"
        /\ items' = BuildItems(results, c)
        /\ itemChangeIds' = {items'[i].id : i \in 1..Len(items')}
        /\ workingCopyChange' = WorkingCopyAfter(results)
        /\ treeFired' = IF ListChanged(treeCalls[c].prev, items')
                        THEN treeFired + 1 ELSE treeFired
        /\ revealed' = SelectionAfter(visible, workingCopyChange', items')
        /\ treeCalls' = [treeCalls EXCEPT ![c].st = "done"]
        /\ UNCHANGED selectedRepository
        /\ UNCHANGED << procVars, inputVars, envVars, transients, decoVars, webVars >>

\* showAll rejects and the call of refresh rejects with it
showAllRejects ==
    \E c \in 1..MaxTreeCalls :
        /\ treeCalls[c].st = "showAll"
        /\ treeCalls' = [treeCalls EXCEPT ![c].st = "done"]
        /\ UNCHANGED << items, itemChangeIds, workingCopyChange, selectedRepository,
                        treeFired, revealed >>
        /\ UNCHANGED << procVars, inputVars, envVars, transients, decoVars, webVars >>

\* setSelectedRepo(repo, treeView) is called
setSelectedRepo ==
    \E repo \in Roots :
        /\ selectedRepository' = repo
        /\ IF selectedRepository # repo
           THEN CanBegin /\ BeginRefresh
           ELSE UNCHANGED treeCalls
        /\ UNCHANGED << items, itemChangeIds, workingCopyChange, treeFired, revealed >>
        /\ UNCHANGED << procVars, inputVars, envVars, transients, decoVars, webVars >>

\* the stand-in at rest while the extension runs
StandInLaunched ==
    /\ os = "posix"
    /\ pid \in OwnPids
    /\ cwd \in Cwds
    /\ args = << <<"fakeeditor">>, <<"--edit">>, <<"msg.txt">> >>
    /\ envSet = TRUE
    /\ launcher \in LauncherPids
    /\ creatable = {}
    /\ Launched

InitTree ==
    /\ StandInLaunched
    /\ platform = "linux"
    /\ Constructed
    /\ TreeConstructed
    /\ WebviewConstructed

TreeNext == refresh \/ showAllResolves \/ showAllRejects \/ setSelectedRepo

SpecTree == InitTree /\ [][TreeNext]_vars

\* ------------------------------------------------ graph webview: methods
\* a call of JJGraphWebview.refresh up to its first await; call 0 is the one
\* resolveWebviewView makes. Without a panel the call returns at once.
RefreshFrom(calls) ==
    IF ~panel' THEN webCalls' = webCalls
    ELSE \E c \in calls :
            /\ webCalls[c] = "idle"
            /\ \A d \in calls : d < c => webCalls[d] # "idle"
            /\ webCalls' = [webCalls EXCEPT ![c] = "log"]

\* resolveWebviewView up to its await of webviewReady
resolveWebviewView ==
    /\ resolving = "none"
    /\ panel' = TRUE
    /\ resolving' = "waiting"
    /\ UNCHANGED << repository, selectedNodes, webviewReady, webCalls, posted >>
    /\ UNCHANGED << procVars, inputVars, envVars, transients, decoVars, treeVars >>

\* the webview sends webviewReady: resolveWebviewView registers its handler
\* and calls refresh
onWebviewReady ==
    /\ resolving = "waiting"
    /\ webviewReady' = TRUE
    /\ resolving' = "done"
    /\ panel' = panel
    /\ RefreshFrom({0})
    /\ UNCHANGED << repository, selectedNodes, posted >>
    /\ UNCHANGED << procVars, inputVars, envVars, transients, decoVars, treeVars >>

\* the webview sends selectChange to the registered handler
onSelectChange ==
    \E nodes \in SUBSET Nodes :
        /\ resolving = "done"
        /\ selectedNodes' = nodes
        /\ UNCHANGED << panel, repository, resolving, webviewReady, webCalls, posted >>
        /\ UNCHANGED << procVars, inputVars, envVars, transients, decoVars, treeVars >>

\* refresh() is called from outside
refreshWebview ==
    /\ panel' = panel
    /\ RefreshFrom(1..MaxWebCalls)
    /\ UNCHANGED << repository, selectedNodes, resolving, webviewReady, posted >>
    /\ UNCHANGED << procVars, inputVars, envVars, transients, decoVars, treeVars >>

\* setSelectedRepository(repo) is called
setSelectedRepository ==
    \E repo \in Roots :
        /\ repository' = repo
        /\ panel' = panel
        /\ IF repository # repo THEN RefreshFrom(1..MaxWebCalls)
           ELSE UNCHANGED webCalls
        /\ UNCHANGED << selectedNodes, resolving, webviewReady, posted >>
        /\ UNCHANGED << procVars, inputVars, envVars, transients, decoVars, treeVars >>

\* repository.log, then getChangeNodesWithParents, resolves
awaitResolves ==
    \E c \in 0..MaxWebCalls :
        /\ webCalls[c] \in {"log", "parents"}
        /\ webCalls' = [webCalls EXCEPT ![c] = IF @ = "log" THEN "parents" ELSE "status"]
        /\ UNCHANGED << panel, repository, selectedNodes, resolving, webviewReady, posted >>
        /\ UNCHANGED << procVars, inputVars, envVars, transients, decoVars, treeVars >>

\* getStatus resolves: the call clears the selection and posts updateGraph
getStatusResolves ==
    \E c \in 0..MaxWebCalls :
        /\ webCalls[c] = "status"
        /\ selectedNodes' = {}
        /\ posted' = Append(posted, UpdateGraph)
        /\ webCalls' = [webCalls EXCEPT ![c] = "done"]
        /\ UNCHANGED << panel, repository, resolving, webviewReady >>
        /\ UNCHANGED << procVars, inputVars, envVars, transients, decoVars, treeVars >>

\* one of the three awaits rejects and the call of refresh rejects with it
awaitRejects ==
    \E c \in 0..MaxWebCalls :
        /\ webCalls[c] \in {"log", "parents", "status"}
        /\ webCalls' = [webCalls EXCEPT ![c] = "done"]
        /\ UNCHANGED << panel, repository, selectedNodes, resolving, webviewReady, posted >>
        /\ UNCHANGED << procVars, inputVars, envVars, transients, decoVars, treeVars >>

InitWebview ==
    /\ StandInLaunched
    /\ platform = "linux"
    /\ Constructed
    /\ TreeConstructed
    /\ WebviewConstructed

WebviewNext ==
    \/ resolveWebviewView
    \/ onWebviewReady
    \/ onSelectChange
    \/ refreshWebview
    \/ setSelectedRepository
    \/ awaitResolves
    \/ getStatusResolves
    \/ awaitRejects

SpecWebview == InitWebview /\ [][WebviewNext]_vars

\* ------------------------------------------------------ outcome of a run
Exited == exitCode # -1

AnnouncePcs == {"pid", "cwd", "argsAlloc", "args", "sentinel", "flush"}
WaitPcs == {"join", "resolve", "walk", "timeout", "parent", "wait", "signal", "sleep"}

\* The terminal state each way of ending stands for.  An error returned by
\* main can only come from the announcer (getcwd, argsAlloc, a write to
\* standard output), which the design counts as SetupError.
Outcome ==
    CASE exitVia = "signal" -> "Completed"
      [] exitVia = "timeout" -> "Timeout"
      [] exitVia \in {"gone", "init"} -> "ParentGone"
      [] exitVia \in {"env", "join", "getcwd", "argsAlloc", "write"} -> "SetupError"
      [] OTHER -> "none"

Fatal == {"Timeout", "ParentGone", "SetupError"}
Terminal == Fatal \cup {"Completed"}

Phase ==
    IF Exited THEN Outcome
    ELSE IF pc \in AnnouncePcs THEN "Announcing" ELSE "Waiting"

\* the text the announcer is to produce
ArgLines == Flatten(args)
\* what the launcher passed after the program name
InvocationArgs == Tail(args)
AnnouncedExits == {"join", "init", "timeout", "gone", "signal"}
IdentityBlock == <<PidLine(pid), cwd>> \o ArgLines \o <<SENTINEL>>
\* the block without its pid line
BlockAfterPid == <<cwd>> \o ArgLines \o <<SENTINEL>>

\* the line that names why a run ended non-zero
CauseLine ==
    CASE exitVia = "env" -> MsgEnv
      [] exitVia = "join" -> MsgJoin
      [] exitVia = "init" -> MsgInit
      [] exitVia = "timeout" -> MsgTimeout
      [] exitVia = "gone" -> IF os = "windows" THEN MsgGoneWin ELSE MsgGonePosix
      [] exitVia = "getcwd" -> "error: CurrentWorkingDirectoryUnlinked"
      [] exitVia = "argsAlloc" -> "error: OutOfMemory"
      [] exitVia = "write" -> "error: WriteFailed"
      [] OTHER -> "none"

IsPrefix(s, t) == Len(s) <= Len(t) /\ SubSeq(t, 1, Len(s)) = s

Diagnostics == errOut \o errBuf
Logged(m) == \E i \in 1..Len(Diagnostics) : Diagnostics[i] = m

MaxTicks == (TOTAL_TIMEOUT_MS \div POLLING_INTERVAL_MS) + 1

\* ------------------------------------------------------------------ claims

\* C1: the exit status is 0 exactly when the run ended because a tick found
\* the signal file accessible (Completed); a run that ends as Timeout,
\* ParentGone or SetupError exits with a non-zero status.
C1_ExitStatus ==
    Exited =>
        /\ Outcome \in Terminal
        /\ (exitCode = 0) <=> (Outcome = "Completed")
        /\ (exitCode = 0) <=> (lastAccess = "ok" /\ ticks >= 1)
        /\ Outcome \in Fatal => exitCode = 1

C1_Witness == Exited /\ exitCode = 0 /\ ticks >= 2 /\ lastAccess = "ok"

\* C2 as stated: once the signal file has been created and is there, a run
\* that is in its wait loop ends with status 0, within one poll interval of
\* the creation, whenever the creation falls.
C2_Original ==
    /\ (InLoop /\ SIGNAL_FILE \in sigdir) => fileAge <= 1
    /\ (Exited /\ ticks >= 1 /\ SIGNAL_FILE \in sigdir) => exitCode = 0

\* C2 amended: the first signal check after the creation, at most one poll
\* interval later, ends the run with status 0 if the file is still there,
\* unless that check fails with an error other than not-found (logged, the
\* file counts as absent for the tick) or the tick ends before it: a tick
\* that finds the timeout elapsed or the parent gone ends the run non-zero
\* although the file is there.  A Completed run reports no Timeout and no
\* ParentGone.
C2_SignalLatency ==
    /\ (pc = "sleep" /\ SIGNAL_FILE \in sigdir /\ fileAge >= 1) => lastAccess = "error"
    /\ (InLoop /\ SIGNAL_FILE \in sigdir /\ fileAge >= 2) => Logged(MsgAccess)
    /\ (Exited /\ ticks >= 1 /\ SIGNAL_FILE \in sigdir /\ exitCode # 0) =>
            \/ exitVia = "timeout" /\ clock >= TOTAL_TIMEOUT_MS
            \/ exitVia = "gone" /\ lastProbe = "gone"
    /\ (Exited /\ exitVia = "signal") =>
            /\ exitCode = 0
            /\ SIGNAL_FILE \in sigdir
            /\ fileAge <= 1 \/ Logged(MsgAccess)
            /\ clock < TOTAL_TIMEOUT_MS
            /\ ~Logged(MsgTimeout) /\ ~Logged(MsgGonePosix) /\ ~Logged(MsgGoneWin)

C2_Witness ==
    Exited /\ exitVia = "signal" /\ fileAge = 1 /\ ticks >= 2 /\ ~Logged(MsgAccess)

\* C3 as stated: with monitoring active, a parent that terminates while the
\* signal file is absent (and stays absent) makes the run exit non-zero
\* within one poll interval, and before the timeout is reached if the
\* timeout had not elapsed when the parent terminated.
C3_Original ==
    (Exited /\ ticks >= 1 /\ monitoring /\ parent = "dead"
        /\ hist.diedAbsent /\ ~hist.fileAfterDeath) =>
            /\ exitCode # 0
            /\ parentAge <= 1
            /\ hist.diedBeforeTimeout => (exitVia # "timeout" /\ clock < TOTAL_TIMEOUT_MS)

\* C3 amended: the run exits non-zero within one poll interval of the
\* parent's termination; the exit is ParentGone, before the timeout, when
\* the tick that follows the termination begins with less than
\* TOTAL_TIMEOUT_MS elapsed, and is Timeout, at TOTAL_TIMEOUT_MS or later,
\* when the parent terminated in the last poll interval before the timeout.
C3_ParentLatency ==
    /\ (InLoop /\ monitoring /\ parent = "dead") =>
            /\ parentAge <= 1
            /\ parentAge = 1 => pc \in {"timeout", "parent", "wait"}
    /\ (Exited /\ ticks >= 1 /\ monitoring /\ parent = "dead"
            /\ hist.diedAbsent /\ ~hist.fileAfterDeath) =>
            /\ exitCode = 1
            /\ parentAge <= 1
            /\ \/ exitVia = "gone" /\ clock < TOTAL_TIMEOUT_MS
               \/ exitVia = "timeout" /\ clock >= TOTAL_TIMEOUT_MS
                    /\ clock < TOTAL_TIMEOUT_MS + POLLING_INTERVAL_MS

C3_Witness ==
    /\ Exited /\ exitVia = "gone" /\ monitoring /\ parent = "dead" /\ parentAge = 1
    /\ ticks >= 2 /\ hist.diedAbsent /\ ~hist.fileAfterDeath

\* C4 as stated: a run that enters the wait loop, never sees the signal file
\* and whose parent stays alive ends as Timeout, non-zero, at an elapsed
\* time t with TOTAL_TIMEOUT_MS <= t < TOTAL_TIMEOUT_MS + POLLING_INTERVAL_MS.
C4_Original ==
    (Exited /\ ticks >= 1 /\ ~hist.fileEver /\ parent = "alive") =>
        /\ exitVia = "timeout"
        /\ exitCode # 0
        /\ clock >= TOTAL_TIMEOUT_MS
        /\ clock < TOTAL_TIMEOUT_MS + POLLING_INTERVAL_MS

\* C4 amended: the same, provided no liveness check reports the live parent
\* gone.  On Windows a parent whose handle cannot be opened, or on which the
\* wait fails, counts as gone although it is alive, and the run then ends as
\* ParentGone before the timeout.
C4_TimeoutWindow ==
    (Exited /\ ticks >= 1 /\ ~hist.fileEver /\ parent = "alive" /\ ~hist.spurious) =>
        /\ exitVia = "timeout"
        /\ exitCode = 1
        /\ Logged(MsgTimeout)
        /\ clock >= TOTAL_TIMEOUT_MS
        /\ clock < TOTAL_TIMEOUT_MS + POLLING_INTERVAL_MS

C4_Witness ==
    /\ Exited /\ exitVia = "timeout" /\ ~hist.fileEver /\ parent = "alive"
    /\ clock > TOTAL_TIMEOUT_MS /\ monitoring

\* C5: every run terminates, in one of the four terminal states, after at
\* most TOTAL_TIMEOUT_MS / POLLING_INTERVAL_MS + 1 ticks of the wait loop.
C5_Terminates ==
    /\ <>(Exited /\ Outcome \in Terminal)
    /\ [](ticks <= MaxTicks)

C5_Witness == Exited /\ ticks = MaxTicks /\ exitVia = "timeout" /\ transients > 0

\* C6: once the announcer is done (before the signal path is built, before
\* parent resolution, before the first tick) standard output has received,
\* flushed, exactly the pid line, the cwd line, the argument lines and the
\* sentinel, in this order, and it receives nothing more, whatever the
\* outcome; until then what was printed is a prefix of that text.
C6_IdentityBlockFirst ==
    /\ IsPrefix(outOut \o outBuf, IdentityBlock)
    /\ (pc \in WaitPcs \/ (Exited /\ exitVia \in {"join", "init", "timeout", "gone", "signal"})) =>
            /\ outOut = IdentityBlock
            /\ outBuf = <<>>
    /\ pc \in AnnouncePcs => (ticks = 0 /\ ppid = 0 /\ handles = 0 /\ Diagnostics = <<>>)

C6_Witness ==
    /\ pc = "resolve" /\ ticks = 0 /\ ppid = 0
    /\ outOut = IdentityBlock /\ Len(args) = 3 /\ Len(outOut) = 6

\* C7 as stated: whenever the process has ended, by whatever path, nothing
\* is left in either writer's buffer (a stream that refused a write set
\* aside).
C7_Original ==
    (Exited /\ ioFailed = {}) => (outBuf = <<>> /\ errBuf = <<>>)

\* C8: with the environment variable absent the run writes its diagnostic
\* line, flushes the pid, cwd and argument lines, and exits non-zero; no
\* sentinel, no start time, no parent resolution and no tick of the loop.
C8_EnvAbsent ==
    /\ ~envSet =>
            /\ pc \in AnnouncePcs \cup {"exited"}
            /\ ticks = 0 /\ clock = 0 /\ ppid = 0 /\ handles = 0
            /\ lastAccess = "none" /\ lastProbe = "none"
    /\ (Exited /\ ~envSet /\ exitVia \notin {"getcwd", "argsAlloc", "write"}) =>
            /\ exitVia = "env"
            /\ exitCode = 1
            /\ Diagnostics = <<MsgEnv>>
            /\ "stderr" \notin ioFailed => (errOut = <<MsgEnv>> /\ errBuf = <<>>)
            /\ "stdout" \notin ioFailed =>
                    (outOut = <<PidLine(pid), cwd>> \o ArgLines /\ outBuf = <<>>)

C8_Witness ==
    /\ Exited /\ exitVia = "env" /\ ioFailed = {}
    /\ Len(outOut) = 5 /\ errOut = <<MsgEnv>>

\* C9 as stated: a run that ends as Timeout, ParentGone or SetupError has
\* the whole identity block, sentinel included, on standard output (a
\* stream that refused a write set aside).
C9_Original ==
    (Exited /\ Outcome \in Fatal /\ ioFailed = {}) => outOut = IdentityBlock

\* C10: a run goes Announcing -> Waiting -> terminal or Announcing ->
\* SetupError, Waiting beginning when the announcer has flushed the identity
\* block; it reaches one terminal state, and once it has, nothing changes
\* any more: no tick, no output, no other outcome.
C10_Lifecycle ==
    /\ Phase = "Announcing"
    /\ [][ /\ Phase = "Announcing" => Phase' \in {"Announcing", "Waiting", "SetupError"}
           /\ Phase = "Waiting" => Phase' \in {"Waiting"} \cup Terminal
           /\ Phase \in Terminal => UNCHANGED vars
           /\ Phase \in {"Announcing", "Waiting"} \cup Terminal
           /\ (pc = "exited") <=> Exited ]_vars

C10_Witness == Exited /\ Outcome = "ParentGone" /\ ticks >= 2

\* ------------------------------------------------------------------- C11
\* C11: no step of the process creates, writes or deletes the signal file or
\* anything else in the signal directory: every step that changes the
\* directory is a step of the harness, and a step of the process leaves the
\* directory as it found it, the step that found the file included.
C11_ProcessLeavesDirectory ==
    [][ /\ (Process => sigdir' = sigdir)
        /\ (sigdir' # sigdir => HarnessCreates \/ HarnessRemoves) ]_vars

\* the process found the file, ended, and the file is still there
C11_Witness ==
    /\ Exited
    /\ exitVia = "signal"
    /\ lastAccess = "ok"
    /\ sigdir = {SIGNAL_FILE}
    /\ hist.fileEver

\* ------------------------------------------------------------------- C12
\* C12: the run depends on the signal directory only through the file named
\* "0". In every state a run reaches, the signal check gives the same results
\* whatever files of other names are added to or taken from the directory, so
\* two runs that differ only in those files take the same steps and reach the
\* same outcome at the same tick; a run ends as Completed only with "0" in
\* the directory, and a run in which the harness creates only files of other
\* names never ends as Completed.
C12_OnlyTheSignalFile ==
    /\ \A others \in SUBSET OtherFiles :
          AccessOf(sigdir \cup others) = AccessOf(sigdir \ others)
    /\ (lastAccess = "ok" => SIGNAL_FILE \in sigdir)
    /\ (Exited /\ Outcome = "Completed" => SIGNAL_FILE \in sigdir /\ hist.fileEver)
    /\ (creatable = OtherFiles => ~(Exited /\ Outcome = "Completed"))

\* a run that polled a directory holding only "1" until the timeout
C12_Witness ==
    /\ Exited
    /\ Outcome = "Timeout"
    /\ creatable = OtherFiles
    /\ sigdir = OtherFiles
    /\ parent = "alive"

\* ------------------------------------------------------------------- C13
\* C13 as stated: once the block is written, the lines between the cwd line
\* and the sentinel are the invocation arguments, one line each, in order,
\* and nothing else.
C13_Original ==
    pc \in WaitPcs =>
        /\ Len(outOut) = Len(InvocationArgs) + 3
        /\ \A i \in 1..Len(InvocationArgs) : <<outOut[i + 2]>> = InvocationArgs[i]

\* C13: between the cwd line and the sentinel the block holds the text of
\* every element of the argument vector, the program name first and then each
\* invocation argument in the order given, and nothing else: while the
\* arguments are being printed, what has been printed is the text of the
\* elements printed so far; an element without a line break is one line.
\* Launched as fakeeditor --edit msg.txt, a run ended by the signal file has
\* the three lines fakeeditor, --edit, msg.txt there and status 0.
C13_ArgumentLines ==
    /\ pc = "args" =>
          outOut \o outBuf = <<PidLine(pid), cwd>> \o Flatten(SubSeq(args, 1, argi))
    /\ (pc \in WaitPcs \/ (Exited /\ exitVia \in AnnouncedExits)) =>
          /\ Len(outOut) >= 3
          /\ SubSeq(outOut, 3, Len(outOut) - 1) = Flatten(args)
          /\ ((\A i \in 1..Len(args) : Len(args[i]) = 1) => Len(outOut) = Len(args) + 3)
    /\ (Exited /\ exitVia = "signal" /\ InvocationArgs = << <<"--edit">>, <<"msg.txt">> >>) =>
          /\ exitCode = 0
          /\ SubSeq(outOut, 3, Len(outOut) - 1) = <<args[1][1], "--edit", "msg.txt">>

\* launched with --edit msg.txt; the file appeared in the poll interval
\* ending 200 ms after the start time and the run ended there with status 0
C13_Witness ==
    /\ InvocationArgs = << <<"--edit">>, <<"msg.txt">> >>
    /\ Exited /\ exitVia = "signal" /\ exitCode = 0
    /\ clock = 4 * POLLING_INTERVAL_MS
    /\ fileAge = 0
    /\ Len(outOut) = 6

C15_Original ==
    (pc \in WaitPcs \/ (Exited /\ exitVia \in AnnouncedExits)) =>
        \A i \in 1..Len(outOut) :
            (outOut[i] = SENTINEL /\ \A j \in 1..(i - 1) : outOut[j] # SENTINEL)
                => i = Len(IdentityBlock)

\* ------------------------------------------------------------------- C16
\* C16: every run that ends as Timeout, ParentGone or SetupError has written
\* to the diagnostic stream a line naming the cause, and it is the last line
\* the stream received unless the stream refused the flush; whenever parent
\* monitoring is disabled the warning has been written; a signal check that
\* failed with an error other than not-found has written its line; and no
\* line of the identity block is ever among the diagnostics.
C16_Diagnostics ==
    /\ (Exited /\ Outcome \in Fatal) =>
          /\ Logged(CauseLine)
          /\ "stderr" \notin ioFailed =>
                (errBuf = <<>> /\ errOut # <<>> /\ errOut[Len(errOut)] = CauseLine)
    /\ (~monitoring => Logged(MsgWinWarn))
    /\ (lastAccess = "error" => Logged(MsgAccess))
    /\ \A i \in 1..Len(Diagnostics) : \A j \in 1..Len(IdentityBlock) :
          Diagnostics[i] # IdentityBlock[j]

\* a run without parent monitoring whose signal check failed once and that
\* ended at the timeout: warning, access error and timeout line, in order
C16_Witness ==
    /\ Exited
    /\ Outcome = "Timeout"
    /\ ~monitoring
    /\ errOut = <<MsgWinWarn, MsgAccess, MsgTimeout>>

\* ------------------------------------------------------------------- C19
\* where a tick can be, given what its checks have found so far
C19_State ==
    /\ pc \in {"parent", "wait", "signal", "sleep"} => ~TimedOut(clock)
    /\ pc \in {"parent", "wait"} => (lastProbe = "none" /\ lastAccess = "none")
    /\ pc = "signal" =>
          /\ lastAccess = "none"
          /\ ~monitoring => lastProbe = "none"
          /\ monitoring => lastProbe \in {"alive", "error"}
    /\ pc = "sleep" => (lastAccess \in {"notfound", "error"} /\ lastProbe # "gone")
    /\ (Exited /\ exitVia = "timeout") =>
          (TimedOut(clock) /\ lastProbe = "none" /\ lastAccess = "none")
    /\ (Exited /\ exitVia = "gone") =>
          (~TimedOut(clock) /\ monitoring /\ lastProbe = "gone" /\ lastAccess = "none")
    /\ (Exited /\ exitVia = "signal") =>
          (~TimedOut(clock) /\ lastProbe # "gone" /\ lastAccess = "ok")

\* what each check of a tick hands over to
C19_Step ==
    /\ (pc = "timeout" /\ pc' # pc) =>
          IF TimedOut(clock) THEN pc' = "exited" /\ exitVia' = "timeout"
          ELSE pc' = "parent"
    /\ (pc \in {"parent", "wait"} /\ lastProbe' = "gone") =>
          (pc' = "exited" /\ exitVia' = "gone")
    /\ (pc \in {"parent", "wait"} /\ pc' \notin {pc, "exited"}) =>
          pc' = (IF pc = "parent" /\ monitoring /\ os = "windows" THEN "wait" ELSE "signal")
    /\ (pc = "signal" /\ pc' # pc) =>
          IF lastAccess' = "ok" THEN pc' = "exited" /\ exitVia' = "signal"
          ELSE pc' = "sleep"
    /\ (pc = "sleep" /\ pc' # pc) =>
          (pc' = "timeout" /\ clock' = clock + POLLING_INTERVAL_MS)

\* C19: within a tick the checks run in the order timeout, parent liveness
\* (when monitoring is enabled), signal file, and the first that holds
\* decides. The timeout check ends the run as Timeout when the timeout has
\* elapsed, before the parent or the file is looked at, and otherwise hands
\* over to the parent check; a parent check that finds the parent gone ends
\* the run as ParentGone before the file is looked at; the signal check runs
\* only in a tick that has not timed out and whose parent check, if any, did
\* not find the parent gone; the process sleeps one interval and starts the
\* next tick only after a signal check that did not find the file.
C19_TickOrder == []C19_State /\ [][C19_Step]_vars

\* a tick that found the timeout elapsed ended the run as Timeout although
\* the parent was dead and the signal file present
C19_Witness ==
    /\ Exited
    /\ exitVia = "timeout"
    /\ monitoring
    /\ parent = "dead"
    /\ SIGNAL_FILE \in sigdir

\* ------------------------------------------------------------------- C20
\* C20: on POSIX a parent process id of 1 read at startup ends the run at
\* once as ParentGone with a non-zero status: no tick has run and neither
\* the parent nor the signal file has been checked, even when the file is
\* already there, and the complete identity block was flushed before. A
\* POSIX run is in the wait loop only with the launcher as its parent.
C20_ReparentedAtStartup ==
    /\ (Exited /\ exitVia = "init") =>
          /\ os = "posix" /\ ppid = INIT_PID
          /\ Outcome = "ParentGone" /\ exitCode # 0
          /\ ticks = 0 /\ lastProbe = "none" /\ lastAccess = "none"
          /\ outOut = IdentityBlock /\ outBuf = <<>>
          /\ Logged(MsgInit)
    /\ (os = "posix" /\ ppid = INIT_PID) => (Exited /\ exitVia = "init")
    /\ (os = "posix" /\ InLoop) => ppid = launcher

\* the launcher had exited and the signal file was already in place when the
\* parent was read
C20_Witness ==
    /\ Exited
    /\ exitVia = "init"
    /\ SIGNAL_FILE \in sigdir
    /\ parent = "dead"
    /\ ticks = 0

\* ------------------------------------------------------------------- C17
\* what the calls made so far have caused
C17_State ==
    /\ hasData = (refreshCalls > 0)
    /\ registerCalls = (IF refreshCalls = 0 THEN 0 ELSE 1)
    /\ fireCount = (IF refreshCalls = 0 THEN 0 ELSE refreshCalls - 1)

\* what one call causes
C17_Step ==
    /\ (refreshCalls' = refreshCalls + 1 /\ refreshCalls = 0) =>
          /\ registerCalls' = registerCalls + 1 /\ fireCount' = fireCount
          /\ lastOp'.registered /\ ~lastOp'.fired
    /\ (refreshCalls' = refreshCalls + 1 /\ refreshCalls > 0) =>
          /\ registerCalls' = registerCalls /\ fireCount' = fireCount + 1
          /\ lastOp'.fired /\ ~lastOp'.registered
    /\ refreshCalls' = refreshCalls =>
          (registerCalls' = registerCalls /\ fireCount' = fireCount)

\* C17: over any sequence of onRefresh calls the register callback is
\* invoked exactly once, during the first call, and that call fires no
\* change event; every later call fires exactly one onDidChangeFileDecorations
\* event and does not register again; no other method registers or fires.
C17_RegisterOnce == []C17_State /\ [][C17_Step]_vars

\* three calls made: one registration, then two events, the latest with
\* something in it
C17_Witness ==
    /\ refreshCalls >= 3
    /\ registerCalls = 1
    /\ fireCount = refreshCalls - 1
    /\ lastOp.op = "onRefresh" /\ lastOp.fired /\ lastOp.uris # {}

\* ------------------------------------------------------------------- C18
\* a call of provideFileDecoration changes nothing but the record of the call
C18_Step ==
    (lastOp' # lastOp /\ lastOp'.op = "provideFileDecoration") =>
        UNCHANGED << decorations, trackedFiles, hasData, registerCalls, fireCount,
                     refreshCalls >>

\* C18: provideFileDecoration throws "provideFileDecoration was called
\* before data was available" exactly when it is called before the first
\* onRefresh call, and then leaves the provider's state as it was; once
\* onRefresh has run it never throws that error.
C18_ThrowsBeforeData ==
    /\ [](lastOp.op = "provideFileDecoration" =>
            /\ (lastOp.threw = ErrNoData) = (refreshCalls = 0)
            /\ (lastOp.threw = ErrNoData) = ~hasData
            /\ lastOp.threw = ErrNoData => lastOp.result = {})
    /\ [][C18_Step]_vars

\* called on a provider that has never been refreshed
C18_Witness ==
    /\ lastOp.op = "provideFileDecoration"
    /\ lastOp.threw = ErrNoData
    /\ refreshCalls = 0
    /\ decorations = EmptyMap /\ trackedFiles = NoTracking /\ ~hasData

\* ------------------------------------------------------------------- C21
\* C21 as stated: on POSIX a probe that fails with no-such-process ends the
\* run as ParentGone; a probe that fails with any other error writes a line
\* to the diagnostic stream and the same tick goes on to the signal check.
C21_Original ==
    [][ (os = "posix" /\ pc = "parent" /\ pc' # pc) =>
          /\ lastProbe' = "gone" => (pc' = "exited" /\ exitVia' = "gone")
          /\ lastProbe' = "error" =>
                /\ pc' = "signal"
                /\ Len(errOut' \o errBuf') > Len(errOut \o errBuf) ]_vars

\* ------------------------------------------------------------------- C22
\* C22 as stated: no transient error ends the run by itself. A wait on the
\* parent handle that failed, which does not establish that the parent is
\* gone, is logged and leaves the process waiting, the tick going on to the
\* signal check; an access error on the signal file is logged and the tick
\* goes on to the sleep.
C22_Original ==
    [][ /\ (pc = "wait" /\ parent = "alive" /\ pc' # pc) => pc' = "signal"
        /\ (pc = "signal" /\ lastAccess' = "error") =>
              (pc' = "sleep" /\ errBuf' = Append(errBuf, MsgAccess)) ]_vars

\* ------------------------------------------------------------------- C23
\* a handle is being waited on only on Windows, with monitoring enabled
C23_State ==
    pc = "wait" => (os = "windows" /\ monitoring /\ handles = 1 /\ ppid = launcher)

\* the two halves of the liveness check on Windows
C23_Step ==
    /\ (os = "windows" /\ monitoring /\ pc = "parent" /\ pc' # pc) =>
          /\ ppid = launcher
          /\ \/ (handles' = handles + 1 /\ pc' = "wait")
             \/ (handles' = handles /\ lastProbe' = "gone"
                    /\ pc' = "exited" /\ exitVia' = "gone" /\ exitCode' # 0)
    /\ (pc = "wait" /\ pc' # pc) =>
          /\ pc' \in {"signal", "exited"}
          /\ parent = "dead" => (pc' = "exited" /\ exitVia' = "gone" /\ exitCode' # 0)
          /\ pc' = "exited" => (exitVia' = "gone" /\ lastProbe' = "gone")
          /\ pc' = "signal" =>
                /\ parent = "alive" /\ lastProbe' = "alive"
                /\ UNCHANGED << errBuf, errOut, exitCode >>

\* C23: on Windows, with a parent id obtained, each tick that gets to the
\* liveness check opens a handle to that id; when the handle cannot be
\* opened the run ends as ParentGone, otherwise the process waits on it
\* without blocking: a signaled handle (the parent has ended) ends the run as
\* ParentGone, a handle not yet signaled counts as a live parent and the
\* tick goes on to the signal check.
C23_WindowsLiveness == []C23_State /\ [][C23_Step]_vars

\* the liveness check of a later tick found the parent dead
C23_Witness ==
    /\ Exited
    /\ os = "windows"
    /\ exitVia = "gone"
    /\ parent = "dead"
    /\ ticks >= 2
    /\ ~hist.spurious
    /\ errOut = <<MsgGoneWin>>

\* ------------------------------------------------------------------- C24
\* what holds of the monitoring flag and the recorded parent id
C24_State ==
    /\ ~monitoring =>
          /\ os = "windows" /\ ppid = 0
          /\ Logged(MsgWinWarn)
          /\ pc \in {"timeout", "parent", "signal", "sleep", "exited"}
          /\ lastProbe = "none" /\ handles = 0
          /\ Exited => Outcome \in {"Completed", "Timeout"}
    /\ Logged(MsgWinWarn) => ~monitoring
    /\ (\E i \in 1..Len(Diagnostics) :
            Diagnostics[i] \in {MsgSnapshot, MsgFirst, MsgNext, MsgIdle}) => ~monitoring
    /\ (monitoring /\ InLoop) => ppid = launcher
    /\ (monitoring /\ ticks > 0) => ~Logged(MsgWinWarn)
    /\ os = "posix" => monitoring

\* the flag and the parent id are settled by parent resolution alone
C24_Step ==
    /\ (InLoop \/ pc \in AnnouncePcs) => UNCHANGED << monitoring, ppid >>
    /\ monitoring' # monitoring =>
          (os = "windows" /\ pc \in {"resolve", "walk"} /\ pc' = "timeout" /\ ticks = 0)

\* C24: monitoring is disabled exactly when parent resolution on Windows
\* failed (snapshot, enumeration, own entry not found, parent id 0): the
\* warning is then logged, the wait loop is entered all the same, no
\* liveness check is ever made and the run ends only as Completed or
\* Timeout. The flag and the recorded parent id are fixed before the first
\* tick and do not change in the loop; on POSIX monitoring is never disabled.
C24_MonitoringDisabled == []C24_State /\ [][C24_Step]_vars

\* monitoring disabled, the parent dead, and the run completed all the same
C24_Witness ==
    /\ Exited
    /\ ~monitoring
    /\ parent = "dead"
    /\ Outcome = "Completed"
    /\ ticks >= 2

\* ------------------------------------------------------------------- C25
\* the three results of the signal check and the sleep that follows two of
\* them
C25_Step ==
    /\ (pc = "signal" /\ pc' # pc) =>
          /\ lastAccess' \in {"ok", "notfound", "error"}
          /\ lastAccess' = "ok" =>
                /\ SIGNAL_FILE \in sigdir
                /\ pc' = "exited" /\ exitVia' = "signal" /\ exitCode' = 0
                /\ errOut' \o errBuf' = errOut \o errBuf
          /\ lastAccess' = "notfound" =>
                /\ SIGNAL_FILE \notin sigdir
                /\ pc' = "sleep" /\ exitCode' = -1
                /\ UNCHANGED << errBuf, errOut >>
          /\ lastAccess' = "error" =>
                /\ pc' = "sleep" /\ exitCode' = -1
                /\ errBuf' = Append(errBuf, MsgAccess)
                /\ UNCHANGED errOut
    /\ (pc = "sleep" /\ pc' # pc) =>
          /\ pc' = "timeout" /\ ticks' = ticks /\ exitCode' = -1
          /\ clock' = clock + POLLING_INTERVAL_MS
          /\ UNCHANGED << errBuf, errOut >>

\* C25: the signal check of a tick has three results. The file <dir>/0 is
\* accessible: the run ends as Completed with status 0. The file does not
\* exist: the process writes no diagnostic, sleeps one poll interval and
\* starts the next tick. Any other access error: one diagnostic line is
\* written and the tick ends like that of an absent file, with the sleep and
\* the next tick, the run not ended.
C25_SignalCheckResults ==
    /\ [](pc = "sleep" => (lastAccess \in {"notfound", "error"} /\ ~Exited))
    /\ [][C25_Step]_vars

\* the check failed with another error while the file was there, and the
\* process went to sleep with the one line written
C25_Witness ==
    /\ pc = "sleep"
    /\ lastAccess = "error"
    /\ SIGNAL_FILE \in sigdir /\ fileAge >= 1
    /\ Diagnostics = <<MsgAccess>>

\* ------------------------------------------------------------------- C26
\* C26: on Windows every handle the process opens, the snapshot of parent
\* resolution and the parent handle of a liveness check, is closed when the
\* function that opened it returns, whatever it returns: a handle is open
\* only while the walk over the snapshot or the wait on the parent is under
\* way, at most one is open at any time, and none is open when the process
\* has exited, in whichever terminal state. On POSIX none is ever opened.
C26_HandlesClosed ==
    /\ handles \in {0, 1}
    /\ (handles = 1) = (pc \in {"walk", "wait"})
    /\ Exited => handles = 0
    /\ pc \in {"timeout", "parent", "signal", "sleep"} => handles = 0
    /\ os = "posix" => handles = 0

\* a run on Windows that opened the snapshot and then a parent handle in
\* each of several ticks, and ended with the wait failing
C26_Witness ==
    /\ Exited
    /\ os = "windows"
    /\ monitoring
    /\ ticks >= 3
    /\ Logged(MsgWait)
    /\ handles = 0

\* ------------------------------------------------------------------- C27
\* C27: Completed is sound. A run has exited with status 0 only if its last
\* tick found the elapsed time below the timeout, did not find the parent
\* gone (it found it alive or could not tell, or monitoring was disabled and
\* nothing was checked) and found the signal file accessible, the file being
\* in the directory at that check; a run whose signal file was created and
\* removed again without a check in between has not seen it, and a run that
\* ends with the file removed has not ended as Completed.
C27_CompletedSound ==
    /\ (Exited /\ exitCode = 0) =>
          /\ exitVia = "signal" /\ Outcome = "Completed"
          /\ ticks >= 1
          /\ ~TimedOut(clock)
          /\ ~monitoring => lastProbe = "none"
          /\ monitoring => lastProbe \in {"alive", "error"}
          /\ lastAccess = "ok"
          /\ SIGNAL_FILE \in sigdir
    /\ lastAccess = "ok" => (SIGNAL_FILE \in sigdir /\ Exited /\ exitCode = 0)
    /\ (Exited /\ SIGNAL_FILE \notin sigdir) => (exitCode # 0 /\ lastAccess # "ok")

\* the file was created and removed again during the run; no check saw it
\* and the run ended at the timeout
C27_Witness ==
    /\ Exited
    /\ Outcome = "Timeout"
    /\ hist.fileEver
    /\ sigdir = {}
    /\ parent = "alive"
    /\ Diagnostics = <<MsgTimeout>>

SameItem(a, b) ==
    /\ a.id = b.id
    /\ a.collapsibleState = b.collapsibleState
    /\ a.iconPath[1] = b.iconPath[1]
    /\ a.description = b.description
    /\ a.contextValue = b.contextValue

SameList(a, b) ==
    /\ Len(a) = Len(b)
    /\ \A i \in 1..Len(a) : SameItem(a[i], b[i])

\* a call of refresh runs from its await to its end
RefreshCompletes ==
    \E c \in 1..MaxTreeCalls : treeCalls[c].st = "showAll" /\ treeCalls'[c].st = "done"

\* C29: a call of refresh that completes fires onDidChangeTreeData exactly
\* when the list it installs differs from the list installed just before it,
\* whether or not another call of refresh was under way.
C29_Original ==
    [][RefreshCompletes => (treeFired' = treeFired + 1 <=> ~SameList(items, items'))]_vars

\* ------------------------------------------------------------------- C30
\* C30: every updateGraph message is posted after the webview has sent
\* webviewReady, also for the calls of refresh and setSelectedRepository made
\* while resolveWebviewView waits, and nothing is posted while no panel is set.
C30_Original ==
    [][posted' # posted => (webviewReady /\ panel)]_vars

====
